---- MODULE Spec2Model ----
(***************************************************************************)
(* Model of src/app/src/components/ThreePortfolio.svelte: the interactive  *)
(* 3D scene widget (frame loop, hover hit-test, light targets, camera      *)
(* focus transition, resize and teardown).  The file holds two variants of *)
(* the widget: the Svelte action threeSceneAction (lines 11-239) and the   *)
(* onMount component (lines 255-429).  The variable `variant` says which   *)
(* one is mounted.                                                         *)
(*                                                                         *)
(* Host model.  The browser runs requestAnimationFrame callbacks frame by  *)
(* frame: a frame runs, in registration order, the callbacks that were     *)
(* pending when the frame began; callbacks registered during a frame run   *)
(* in the next one.  Input events, loader callbacks and teardown are tasks *)
(* of their own and run between frames.                                    *)
(*                                                                         *)
(* Numbers.  Positions are vectors of integers in thousandths of a world   *)
(* unit.                                                                   *)
(* The focus progress is an IEEE-754 double, kept exactly as a multiple of *)
(* 2^-58 in two limbs <<hi, lo>> (value = hi * 2^29 + lo).  A light        *)
(* intensity is tracked by the region it lies in (zero, dim: at most the   *)
(* flicker threshold, lit: above it); the regions' successor relation is   *)
(* computed from the arithmetic of the smoothing and flicker statements.   *)
(* LightSpec follows one light by its numbers instead, and FairSpec adds   *)
(* the fairness of the frame callbacks to the widget.                      *)
(***************************************************************************)
EXTENDS Integers, Sequences, FiniteSets, TLC

\* ------------------------------------------------------------------ bounds
\* number of input events (loader results, pointer moves, clicks, resizes,
\* teardown) the environment delivers in one behaviour; frames are not counted
MaxEvents == 4
\* number of meshes a loaded model can have
MaxMeshes == 2
\* input events of a behaviour whose progress is checked
MaxFairEvents == 3
\* the intensity, in units of 2^-1074 (the least positive double), at which
\* the decay of a light toward 0 is picked up exactly
MaxTiny == 18

\* ------------------------------------------------------- program constants
\* hoveredObject = null / an empty intersection list
Null == <<"null", 0>>
\* a model variable that no loader callback has assigned
Undefined == << >>
Variants == {"action", "onMount"}
Keys == {"photography", "computerscience"}

\* limb base 2^29 of the double representation
Base == 2 ^ 29
\* the double 1.0 in units of 2^-58
One == <<536870912, 0>>
Zero == <<0, 0>>
\* a step that adds nothing to the progress
NoStep == Zero
\* the double nearest to 0.02 / 1.2 (duration = 1.2): 4803839602528529 * 2^-58
Step == <<8947848, 286331153>>

\* container sizes (pixels) a mount or a resize event can meet
Sizes == {0, 400, 800}
\* node.clientWidth and node.clientHeight when the widget is mounted
InitialSize == <<400, 400>>
\* values of Math.sin(Date.now() * k) * 0.05, in thousandths
FlickerTerms == {-50, 0, 50}

VARIABLES
  variant,                 \* which of the two widget variants is mounted
  loader,                  \* per model key: "Pending", "Loaded" or "Failed"
  cameraModel,             \* Undefined, or the meshes of the loaded gltf.scene
  macbookModel,
  mouse,                   \* what lies under the latched pointer coordinates
  hoveredObject,           \* Null or the hit mesh <<key, index>>
  cameraTargetIntensity,   \* thousandths
  computerTargetIntensity,
  cameraGlow,              \* region of cameraGlow.intensity
  computerGlow,
  cameraPosition,          \* camera.position, thousandths
  azimuth,                 \* orbit azimuth held by the controls (index)
  container,               \* <<clientWidth, clientHeight>> of the mount node
  cameraAspect,            \* camera.aspect
  rendererSize,            \* size of the render target
  focus,                   \* the focusOn closures created so far
  rafQueue,                \* callbacks pending for the next frame
  frameRun,                \* callbacks of the running frame not yet run
  listeners,               \* names of the registered window listeners
  destroyed,               \* teardown has run
  disposed,                \* per resource: number of dispose() calls
  nEvents,                 \* input events delivered so far
  light,                   \* one point light followed by its numbers
  op                       \* the handler that ran last

vars == <<variant, loader, cameraModel, macbookModel, mouse, hoveredObject,
          cameraTargetIntensity, computerTargetIntensity, cameraGlow,
          computerGlow, cameraPosition, azimuth, container, cameraAspect,
          rendererSize, focus, rafQueue, frameRun, listeners, destroyed,
          disposed, nEvents, light, op>>

\* ----------------------------------------------------------- scene content
\* A loaded gltf.scene: its meshes, each with its depth below the root
\* (1 = child of the root) and the geometry and material it references.
GltfShapes ==
  { << [depth |-> 1, geometry |-> 1, material |-> 1] >>,
    << [depth |-> 2, geometry |-> 1, material |-> 1],
       [depth |-> 3, geometry |-> 1, material |-> 1] >> }

ModelOf(k) == IF k = "photography" THEN cameraModel ELSE macbookModel

\* a hit test that waits for both models
modelsWhenBoth ==
  IF \A k \in Keys : ModelOf(k) # Undefined THEN Keys ELSE {}

\* [cameraModel, macbookModel].filter(Boolean)
models == {k \in Keys : ModelOf(k) # Undefined}

PointerTargets == {Null} \cup (Keys \X (1..MaxMeshes))

\* raycaster.intersectObjects(models, true)[0].object, Null when the list is
\* empty: the mesh under the pointer, if its model is part of `models`.
\* The onMount variant passes models.map(m => m.children[0]) and relies on
\* the recursive default; every mesh of a shape lies below children[0].
Intersect ==
  IF mouse # Null /\ mouse[1] \in models /\ mouse[2] <= Len(ModelOf(mouse[1]))
  THEN mouse ELSE Null

DepthOf(obj) == ModelOf(obj[1])[obj[2]].depth

\* A node of a model's tree is <<key, level>>: level 0 is the root gltf.scene,
\* a mesh sits at the level given by its depth.
\* obj.parent, obj.parent.parent, ...
Ancestor(obj, n) == <<obj[1], DepthOf(obj) - n>>

\* the ancestor walk cut short after the direct parent
WalkUpOneLevel(node) == node

\* while (parent && !models.includes(parent)) parent = parent.parent
RECURSIVE WalkUp(_)
WalkUp(node) ==
  IF node[2] <= 0 /\ node[1] \in models THEN node
  ELSE WalkUp(<<node[1], node[2] - 1>>)

\* cameraModel.position / macbookModel.position, thousandths
ModelPosition(k) ==
  IF variant = "action"
  THEN (IF k = "photography" THEN <<-300, 0, 0>> ELSE <<300, 0, 0>>)
  ELSE (IF k = "photography" THEN <<-500, 0, 0>> ELSE <<500, 0, 0>>)

\* where controls.update() puts the camera: on the orbit around the target at
\* the locked polar angle, at the azimuth the user's drags have selected
\* (radius 1.136 around (0, 0.2, 0) at 60 degrees), thousandths
OrbitPositions == << <<440, 768, 880>>, <<-440, 768, 880>> >>

\* ------------------------------------------------------------- arithmetic
Pow2(n) == 2 ^ n

\* number of low bits a double of magnitude <<hi, _>> cannot hold
\* (53 significant bits)
DropBits(hi) ==
  IF hi < Pow2(24) THEN 0
  ELSE IF hi < Pow2(25) THEN 1
  ELSE IF hi < Pow2(26) THEN 2
  ELSE IF hi < Pow2(27) THEN 3
  ELSE IF hi < Pow2(28) THEN 4
  ELSE IF hi < Pow2(29) THEN 5
  ELSE 6

\* a + b on doubles: the exact sum rounded to nearest, ties to even
FpAdd(a, b) ==
  LET lo0 == a[2] + b[2]
      lo1 == lo0 % Base
      hi1 == a[1] + b[1] + (lo0 \div Base)
      k   == DropBits(hi1)
      u   == Pow2(k)
      q   == lo1 \div u
      r   == lo1 % u
      up  == IF k = 0 THEN 0
             ELSE IF 2 * r > u \/ (2 * r = u /\ q % 2 = 1) THEN 1 ELSE 0
      lo2 == (q + up) * u
  IN IF lo2 = Base THEN <<hi1 + 1, 0>> ELSE <<hi1, lo2>>

\* a < b on doubles
FpLess(a, b) == a[1] < b[1] \/ (a[1] = b[1] /\ a[2] < b[2])

\* the test of move() written as progress <= 1
AtMostOne(p) == p[1] <= One[1]

\* progress < 1
LessThanOne(p) == p[1] < One[1]

\* d * alpha rounded toward zero, alpha taken to 17 binary places
Scale(d, alpha) ==
  LET f == alpha[1] \div Pow2(12)
  IN IF d >= 0 THEN (d * f) \div Pow2(17) ELSE -(((-d) * f) \div Pow2(17))

\* Vector3.lerpVectors(v1, v2, alpha): v1 + (v2 - v1) * alpha per component
LerpVectors(v1, v2, alpha) ==
  [i \in 1..3 |-> v1[i] + Scale(v2[i] - v1[i], alpha)]

\* targetPos.clone().add(new THREE.Vector3(0, 0.5, 2))
EndOf(k) ==
  LET t == ModelPosition(k) IN <<t[1], t[2] + 500, t[3] + 2000>>

\* node.clientWidth / node.clientHeight as JavaScript computes it, thousandths
Divide(w, h) ==
  IF h = 0 THEN (IF w = 0 THEN "NaN" ELSE "Infinity")
  ELSE ToString((w * 1000) \div h)

\* ------------------------------------------------------------ light regions
\* the target of a lit light in the action variant (2.5), thousandths
LitTarget == 2500
\* the intensity of a lit light in the onMount variant (2), thousandths
LitIntensity == 2000
\* the flicker threshold 0.3
FlickerThreshold == 300
\* least upper bound of an intensity: the fixed point of 0.92 x + 200 + 50
IntensityBound == (((LitTarget * 8) \div 100 + 50) * 100) \div 8

Regions == {"zero", "dim", "lit"}

Region(x) ==
  IF x = 0 THEN "zero" ELSE IF x <= FlickerThreshold THEN "dim" ELSE "lit"

RegionValues(r) ==
  IF r = "zero" THEN {0}
  ELSE IF r = "dim" THEN 1..FlickerThreshold
  ELSE (FlickerThreshold + 1)..IntensityBound

\* a smoothing statement that adds twice the distance
SmoothOver(x, target) == x + 2 * (target - x)

\* intensity += (target - intensity) * 0.08, rounded toward the old value
Smooth(x, target) ==
  LET d == target - x
  IN IF d >= 0 THEN x + (d * 8) \div 100 ELSE x - (((-d) * 8) \div 100)

\* flicker without the test of the threshold
FlickerAlways(x, f) == x + f

\* if (intensity > 0.3) intensity += Math.sin(Date.now() * k) * 0.05
Flicker(x, f) == IF x > FlickerThreshold THEN x + f ELSE x

\* A light followed by its numbers: intensity x and target in thousandths
\* (unit "milli"), or, for an intensity that has decayed into the subnormal
\* doubles, x in units of 2^-1074 (unit "tiny"), where the arithmetic of the
\* smoothing statement is exact in integers; `applied` tells whether the
\* last tick took the flicker branch.
\* new THREE.PointLight(color, 0, ...), target intensity 0
Dark == [unit |-> "milli", x |-> 0, target |-> 0, applied |-> FALSE]

\* intensity += (0 - intensity) * 0.08 on x * 2^-1074: the product
\* x * 0.08 is rounded to the nearest multiple of 2^-1074 (no tie occurs,
\* 2x/25 is never half an integer) and the subtraction is exact
SmoothTiny(x) == x - ((8 * x + 50) \div 100)

\* lines 168 and 172-174 for one light; f is Math.sin(...) * 0.05
\* (a subnormal intensity is absorbed when the target is lit:
\* x + (2.5 - x) * 0.08 is the double 0.2)
GlowStep(l, f) ==
  IF l.unit = "tiny" /\ l.target = 0
  THEN [l EXCEPT !.x = SmoothTiny(l.x), !.applied = FALSE]
  ELSE LET s == Smooth(IF l.unit = "tiny" THEN 0 ELSE l.x, l.target)
       IN [unit    |-> "milli",
           x       |-> Flicker(s, f),
           target  |-> l.target,
           applied |-> s > FlickerThreshold]

\* regions one tick of smoothing and flicker can lead to
RegionStep ==
  [r \in Regions, target \in {0, LitTarget} |->
     { Region(Flicker(Smooth(x, target), f)) :
         x \in RegionValues(r), f \in FlickerTerms }]

\* -------------------------------------------------------------- resources
\* the meshes scene.traverse visits: the floor and the attached models' meshes
SceneMeshes ==
  {<<"floor", 1>>} \cup {m \in Keys \X (1..MaxMeshes) :
                          m[1] \in models /\ m[2] <= Len(ModelOf(m[1]))}

GeometryOf(m) ==
  IF m[1] = "floor" THEN <<"floor", "geometry", 1>>
  ELSE <<m[1], "geometry", ModelOf(m[1])[m[2]].geometry>>

MaterialOf(m) ==
  IF m[1] = "floor" THEN <<"floor", "material", 1>>
  ELSE <<m[1], "material", ModelOf(m[1])[m[2]].material>>

Resources ==
  {<<"renderer", "renderer", 1>>, <<"controls", "controls", 1>>}
  \cup (({"floor"} \cup Keys) \X {"geometry", "material"} \X (1..MaxMeshes))

\* dispose() calls that destroy() of the action variant makes on resource r
DisposeCalls(r) ==
  IF r[2] \in {"renderer", "controls"} THEN 1
  ELSE Cardinality({m \in SceneMeshes : GeometryOf(m) = r})
       + Cardinality({m \in SceneMeshes : MaterialOf(m) = r})

\* ------------------------------------------------------------------- Init
\* the widget as its construction leaves it
Mounted ==
  /\ variant \in Variants
  /\ loader = [k \in Keys |-> "Pending"]
  /\ cameraModel = Undefined
  /\ macbookModel = Undefined
  /\ mouse = Null
  /\ hoveredObject = Null
  /\ cameraTargetIntensity = 0
  /\ computerTargetIntensity = 0
  /\ cameraGlow = "zero"
  /\ computerGlow = "zero"
  \* animate() has run once: controls.update() has placed the camera
  /\ azimuth = 1
  /\ cameraPosition = OrbitPositions[azimuth]
  /\ container = InitialSize
  /\ cameraAspect = Divide(container[1], container[2])
  /\ rendererSize = container
  /\ focus = << >>
  /\ rafQueue = <<0>>
  /\ frameRun = << >>
  /\ listeners = {"mousemove", "click", "resize"}
  /\ destroyed = FALSE
  /\ disposed = [r \in Resources |-> 0]
  /\ op = "mount"

Init == Mounted /\ nEvents = 0 /\ light = Dark

\* the same widget in an environment that delivers MaxFairEvents events
FairInit == Mounted /\ nEvents = MaxEvents - MaxFairEvents /\ light = Dark

\* the host is between two frames: tasks other than frame callbacks can run
Idle == frameRun = << >>

\* an input event is delivered (between frames, within the event budget)
Event == Idle /\ nEvents < MaxEvents /\ nEvents' = nEvents + 1

\* the callbacks the host runs next: the rest of the running frame, or the
\* pending ones, which the next frame takes over when it starts
RunList == IF Idle THEN rafQueue ELSE frameRun

\* the callbacks that stay pending while the head of RunList runs
Pending == IF Idle THEN << >> ELSE rafQueue

\* ------------------------------------------------------------------ loader
\* loader.load(..., (gltf) => { ... scene.add(model) })
LoadModel(k, gltf) ==
  /\ Event
  /\ loader[k] = "Pending"
  /\ loader' = [loader EXCEPT ![k] = "Loaded"]
  /\ IF k = "photography"
     THEN cameraModel' = gltf /\ UNCHANGED macbookModel
     ELSE macbookModel' = gltf /\ UNCHANGED cameraModel
  /\ op' = "load"
  /\ UNCHANGED <<light, variant, azimuth, container, mouse, hoveredObject,
                 cameraTargetIntensity, computerTargetIntensity, cameraGlow,
                 computerGlow, cameraPosition, cameraAspect, rendererSize,
                 focus, rafQueue, frameRun, listeners, destroyed, disposed>>

\* the load fails: no error callback is passed, nothing runs
LoadFails(k) ==
  /\ Event
  /\ loader[k] = "Pending"
  /\ loader' = [loader EXCEPT ![k] = "Failed"]
  /\ op' = "loadfail"
  /\ UNCHANGED <<light, variant, azimuth, container, cameraModel, macbookModel,
                 mouse, hoveredObject, cameraTargetIntensity,
                 computerTargetIntensity, cameraGlow, computerGlow,
                 cameraPosition, cameraAspect, rendererSize, focus, rafQueue,
                 frameRun, listeners, destroyed, disposed>>

\* ------------------------------------------------------------------ input
\* a pointer-move handler that resolves the hover itself
onMouseMoveHovers(target) ==
  /\ Event
  /\ "mousemove" \in listeners
  /\ mouse' = target
  /\ hoveredObject' = IF target # Null /\ ModelOf(target[1]) # Undefined
                          /\ target[2] <= Len(ModelOf(target[1]))
                       THEN target ELSE Null
  /\ op' = "onMouseMove"
  /\ UNCHANGED <<light, variant, azimuth, container, loader, cameraModel,
                 macbookModel, cameraTargetIntensity,
                 computerTargetIntensity, cameraGlow, computerGlow,
                 cameraPosition, cameraAspect, rendererSize, focus, rafQueue,
                 frameRun, listeners, destroyed, disposed>>

onMouseMove(target) ==
  /\ Event
  /\ "mousemove" \in listeners
  /\ mouse' = target
  /\ op' = "onMouseMove"
  /\ UNCHANGED <<light, variant, azimuth, container, loader, cameraModel,
                 macbookModel, hoveredObject, cameraTargetIntensity,
                 computerTargetIntensity, cameraGlow, computerGlow,
                 cameraPosition, cameraAspect, rendererSize, focus, rafQueue,
                 frameRun, listeners, destroyed, disposed>>

\* the user drags on the canvas: the controls' own pointer listeners (removed
\* by controls.dispose()) turn the orbit to another azimuth
onDrag(a) ==
  /\ Event
  /\ disposed[<<"controls", "controls", 1>>] = 0
  /\ a # azimuth
  /\ azimuth' = a
  /\ op' = "onDrag"
  /\ UNCHANGED <<light, variant, container, loader, cameraModel, macbookModel, mouse,
                 hoveredObject, cameraTargetIntensity,
                 computerTargetIntensity, cameraGlow, computerGlow,
                 cameraPosition, cameraAspect, rendererSize, focus, rafQueue,
                 frameRun, listeners, destroyed, disposed>>

\* move() that keeps requesting frames after it has reached the end
moveRepeats(fs, id, q) ==
  LET f == fs[id]
      p == FpAdd(f.progress, Step)
  IN IF LessThanOne(p)
     THEN /\ cameraPosition' = LerpVectors(f.start, f.end, p)
          /\ rafQueue' = Append(q, id)
          /\ focus' = [fs EXCEPT ![id].progress = p]
     ELSE /\ IF variant = "action"
             THEN cameraPosition' = f.end
             ELSE UNCHANGED cameraPosition
          /\ rafQueue' = Append(q, id)
          /\ focus' = [fs EXCEPT ![id].progress = f.progress,
                                 ![id].opened = Append(f.opened, f.portfolio)]

\* one call of move() of the closure focus[id], given the closures fs and the
\* pending callbacks q
move(fs, id, q) ==
  LET f == fs[id]
      p == FpAdd(f.progress, Step)
  IN IF LessThanOne(p)
     THEN /\ cameraPosition' = LerpVectors(f.start, f.end, p)
          /\ rafQueue' = Append(q, id)
          /\ focus' = [fs EXCEPT ![id].progress = p]
     ELSE /\ IF variant = "action"
             THEN cameraPosition' = f.end
             ELSE UNCHANGED cameraPosition
          /\ rafQueue' = q
          /\ focus' = [fs EXCEPT ![id].progress = p,
                                 ![id].opened = Append(f.opened, f.portfolio)]

\* focusOn that names every transition after the camera model
focusOnCamera(k) ==
     move(Append(focus, [portfolio |-> "photography",
                         start     |-> cameraPosition,
                         end       |-> EndOf(k),
                         progress  |-> Zero,
                         opened    |-> << >>]),
          Len(focus) + 1, rafQueue)

\* focusOn(obj, portfolio): builds the closure and calls move() once
focusOn(k) ==
     move(Append(focus, [portfolio |-> k,
                         start     |-> cameraPosition,
                         end       |-> EndOf(k),
                         progress  |-> Zero,
                         opened    |-> << >>]),
          Len(focus) + 1, rafQueue)

\* onClick without its test of hoveredObject
ClickTargetUnguarded ==
  IF hoveredObject = Null THEN <<"photography", 0>>
  ELSE IF Ancestor(hoveredObject, 1) = <<"photography", 0>>
  THEN <<"photography", 0>>
  ELSE <<"computerscience", 0>>

\* the portfolio onClick resolves for the hovered mesh, Null if none
ClickTarget ==
  IF hoveredObject = Null THEN Null
  ELSE LET parent      == Ancestor(hoveredObject, 1)
           grandparent == Ancestor(hoveredObject, 2)
           isRoot(n, k) == n = <<k, 0>> /\ ModelOf(k) # Undefined
       IN IF variant = "action"
          THEN IF isRoot(parent, "photography")
                  \/ isRoot(grandparent, "photography")
               THEN <<"photography", 0>>
               ELSE IF isRoot(parent, "computerscience")
                       \/ isRoot(grandparent, "computerscience")
               THEN <<"computerscience", 0>>
               ELSE Null
          ELSE IF isRoot(parent, "photography") THEN <<"photography", 0>>
               ELSE IF isRoot(parent, "computerscience")
               THEN <<"computerscience", 0>>
               ELSE Null

onClick ==
  /\ Event
  /\ "click" \in listeners
  /\ IF ClickTarget # Null
     THEN focusOn(ClickTarget[1])
     ELSE UNCHANGED <<cameraPosition, rafQueue, focus>>
  /\ op' = "onClick"
  /\ UNCHANGED <<light, variant, azimuth, container, loader, cameraModel,
                 macbookModel, mouse, hoveredObject, cameraTargetIntensity,
                 computerTargetIntensity, cameraGlow, computerGlow,
                 cameraAspect, rendererSize, frameRun, listeners, destroyed,
                 disposed>>

\* the window is resized, the mount node becomes w by h pixels, and the
\* resize listener runs
handleResize(w, h) ==
  /\ Event
  /\ "resize" \in listeners
  /\ container' = <<w, h>>
  /\ cameraAspect' = Divide(container'[1], container'[2])
  /\ rendererSize' = container'
  /\ op' = "handleResize"
  /\ UNCHANGED <<light, variant, azimuth, loader, cameraModel, macbookModel, mouse,
                 hoveredObject, cameraTargetIntensity,
                 computerTargetIntensity, cameraGlow, computerGlow,
                 cameraPosition, focus, rafQueue, frameRun, listeners,
                 destroyed, disposed>>

\* ------------------------------------------------------------- frame loop
\* the hover block without the reset of its else branch
HoverActionKeeps ==
  IF models # {} /\ Intersect # Null
  THEN LET parent == WalkUp(Ancestor(Intersect, 1))
       IN /\ hoveredObject' = Intersect
          /\ cameraTargetIntensity' =
               (IF parent = <<"photography", 0>> THEN LitTarget ELSE 0)
          /\ computerTargetIntensity' =
               (IF parent = <<"computerscience", 0>> THEN LitTarget ELSE 0)
  ELSE UNCHANGED <<hoveredObject, cameraTargetIntensity,
                   computerTargetIntensity>>

\* the hover block of animate() in the action variant (lines 140-165)
HoverAction ==
  IF models # {}
  THEN IF Intersect # Null
       THEN LET parent == WalkUp(Ancestor(Intersect, 1))
            IN /\ hoveredObject' = Intersect
               /\ IF parent = <<"photography", 0>>
                  THEN /\ cameraTargetIntensity' = LitTarget
                       /\ computerTargetIntensity' = 0
                  ELSE IF parent = <<"computerscience", 0>>
                  THEN /\ cameraTargetIntensity' = 0
                       /\ computerTargetIntensity' = LitTarget
                  ELSE UNCHANGED <<cameraTargetIntensity,
                                   computerTargetIntensity>>
       ELSE /\ hoveredObject' = Null
            /\ cameraTargetIntensity' = 0
            /\ computerTargetIntensity' = 0
  ELSE UNCHANGED <<hoveredObject, cameraTargetIntensity,
                   computerTargetIntensity>>

\* the hover block of animate() in the onMount variant (lines 365-388)
HoverOnMount ==
  /\ UNCHANGED <<cameraTargetIntensity, computerTargetIntensity>>
  /\ IF models # {}
     THEN IF Intersect # Null
          THEN IF Intersect # hoveredObject
               THEN /\ hoveredObject' = Intersect
                    /\ IF Ancestor(Intersect, 1) = <<"photography", 0>>
                       THEN /\ cameraGlow' = Region(LitIntensity)
                            /\ computerGlow' = Region(0)
                       ELSE IF Ancestor(Intersect, 1) = <<"computerscience", 0>>
                       THEN /\ cameraGlow' = Region(0)
                            /\ computerGlow' = Region(LitIntensity)
                       ELSE UNCHANGED <<cameraGlow, computerGlow>>
               ELSE UNCHANGED <<hoveredObject, cameraGlow, computerGlow>>
          ELSE /\ hoveredObject' = Null
               /\ cameraGlow' = Region(0)
               /\ computerGlow' = Region(0)
     ELSE UNCHANGED <<hoveredObject, cameraGlow, computerGlow>>

\* one tick of the main loop
animate ==
  /\ RunList # << >>
  /\ Head(RunList) = 0
  /\ frameRun' = Tail(RunList)
  \* animationFrameId = requestAnimationFrame(animate)
  /\ rafQueue' = Append(Pending, 0)
  \* controls.update()
  /\ cameraPosition' = OrbitPositions[azimuth]
  /\ IF variant = "action"
     THEN /\ HoverAction
          /\ cameraGlow' \in RegionStep[cameraGlow, cameraTargetIntensity']
          /\ computerGlow' \in
               RegionStep[computerGlow, computerTargetIntensity']
     ELSE HoverOnMount
  \* renderer.render(scene, camera)
  /\ op' = "animate"
  /\ UNCHANGED <<light, variant, azimuth, container, loader, cameraModel,
                 macbookModel, mouse, cameraAspect, rendererSize, focus,
                 listeners, destroyed, disposed, nEvents>>

\* one scheduled tick of the focus transition focus[id]
moveTick(id) ==
  /\ id \in DOMAIN focus
  /\ RunList # << >>
  /\ Head(RunList) = id
  /\ frameRun' = Tail(RunList)
  /\ move(focus, id, Pending)
  /\ op' = "move"
  /\ UNCHANGED <<light, variant, azimuth, container, loader, cameraModel,
                 macbookModel, mouse, hoveredObject, cameraTargetIntensity,
                 computerTargetIntensity, cameraGlow, computerGlow,
                 cameraAspect, rendererSize, listeners, destroyed, disposed,
                 nEvents>>

\* ---------------------------------------------------------------- teardown
\* destroy() of the action, the cleanup function of the onMount variant
destroy ==
  /\ Event
  /\ ~destroyed
  /\ destroyed' = TRUE
  /\ IF variant = "action"
     THEN \* cancelAnimationFrame(animationFrameId)
          /\ rafQueue' = SelectSeq(rafQueue, LAMBDA c : c # 0)
          /\ listeners' = listeners \ {"mousemove", "click", "resize"}
          /\ disposed' = [r \in Resources |-> disposed[r] + DisposeCalls(r)]
     ELSE /\ listeners' = listeners \ {"mousemove", "click"}
          /\ UNCHANGED <<rafQueue, disposed>>
  /\ op' = "destroy"
  /\ UNCHANGED <<light, variant, azimuth, container, loader, cameraModel,
                 macbookModel, mouse, hoveredObject, cameraTargetIntensity,
                 computerTargetIntensity, cameraGlow, computerGlow,
                 cameraPosition, cameraAspect, rendererSize, focus, frameRun>>

\* ------------------------------------------------------------------- Next
Next ==
  \/ \E k \in Keys, gltf \in GltfShapes : LoadModel(k, gltf)
  \/ \E k \in Keys : LoadFails(k)
  \/ \E target \in PointerTargets : onMouseMove(target)
  \/ \E a \in DOMAIN OrbitPositions : onDrag(a)
  \/ onClick
  \/ \E w \in Sizes, h \in Sizes : handleResize(w, h)
  \/ animate
  \/ \E id \in 1..MaxEvents : moveTick(id)
  \/ destroy

Spec == Init /\ [][Next]_vars

\* The host keeps producing frames: a callback handed to
\* requestAnimationFrame and not cancelled is eventually called.
\* ------------------------------------------------------- one light, numeric
\* everything but the followed light and op
widget == <<variant, loader, cameraModel, macbookModel, mouse, hoveredObject,
            cameraTargetIntensity, computerTargetIntensity, cameraGlow,
            computerGlow, cameraPosition, azimuth, container, cameraAspect,
            rendererSize, focus, rafQueue, frameRun, listeners, destroyed,
            disposed, nEvents>>

\* the hover block gives the light a new target (lines 153-163)
retarget(t) ==
  /\ t # light.target
  /\ light' = [light EXCEPT !.target = t]
  /\ op' = "retarget"
  /\ UNCHANGED widget

\* the smoothing and flicker statements of one tick
glow(f) ==
  /\ light' = GlowStep(light, f)
  /\ op' = "glow"
  /\ UNCHANGED widget

\* the action variant with a dark light, or with a light that was lit and
\* has decayed toward 0 down to MaxTiny * 2^-1074
LightInit ==
  /\ Mounted
  /\ variant = "action"
  /\ nEvents = 0
  /\ light \in {Dark, [Dark EXCEPT !.unit = "tiny", !.x = MaxTiny]}

LightNext ==
  \/ \E t \in {0, LitTarget} : retarget(t)
  \/ \E f \in FlickerTerms : glow(f)

LightSpec == LightInit /\ [][LightNext]_vars

\* Progress is checked on the behaviours with at most MaxFairEvents events.
FairSpec ==
  /\ FairInit
  /\ [][Next]_vars
  /\ WF_vars(animate)
  /\ WF_vars(\E id \in 1..MaxEvents : moveTick(id))

\* ================================================================= claims
\* status of a focus transition
Complete(id) == ~LessThanOne(focus[id].progress)
Scheduled(id) ==
  \/ \E i \in DOMAIN rafQueue : rafQueue[i] = id
  \/ \E i \in DOMAIN frameRun : frameRun[i] = id
Running(id) == Scheduled(id)

\* C1: a click that arrives while a focus transition is Running starts no new
\* transition, so at most one focus transition is Running in every reachable
\* state.
C1_AtMostOneRunning ==
  Cardinality({id \in DOMAIN focus : Running(id)}) <= 1

\* C2: every focus transition logs its selection signal exactly once, at the
\* tick it becomes Complete: nothing is logged while progress < 1, exactly one
\* signal is logged once progress >= 1, and a Complete transition has no tick
\* scheduled that could log again.
C2_SignalExactlyOnce ==
  \A id \in DOMAIN focus :
    IF Complete(id)
    THEN Len(focus[id].opened) = 1 /\ ~Scheduled(id)
    ELSE focus[id].opened = << >> /\ Scheduled(id)

\* a transition has just completed and logged its signal
C2_Witness ==
  /\ op = "move"
  /\ \E id \in DOMAIN focus : Complete(id) /\ Len(focus[id].opened) = 1

\* C3: a click delivered while hoveredObject is null creates no focus
\* transition, schedules no tick and leaves the camera position unchanged.
C3_IdleClickIsIgnored ==
  [][(op' = "onClick" /\ hoveredObject = Null)
       => UNCHANGED <<focus, rafQueue, cameraPosition>>]_vars

\* a click has been handled with nothing hovered although a model is loaded
C3_Witness ==
  /\ op = "onClick"
  /\ hoveredObject = Null
  /\ models # {}
  /\ focus = << >>

\* C4: after teardown of the action no tick remains scheduled, neither of the
\* main loop nor of a focus transition that was Running at teardown.
C4_NoTickAfterTeardown ==
  (variant = "action" /\ destroyed) => (rafQueue = << >> /\ frameRun = << >>)

\* C5: after teardown none of the listeners the widget registered is still
\* registered.
C5_NoListenerAfterTeardown ==
  destroyed => listeners = {}

\* C6: teardown of the action disposes each geometry and each material
\* reachable from the scene graph exactly once.
C6_DisposedExactlyOnce ==
  (variant = "action" /\ op = "destroy") =>
    \A m \in SceneMeshes :
      disposed[GeometryOf(m)] = 1 /\ disposed[MaterialOf(m)] = 1

\* C7: a resize event that finds the container with a zero width or height
\* leaves the camera aspect and the render-target size as they were.
C7_DegenerateResizeIsNoOp ==
  [][(op' = "handleResize" /\ (container'[1] = 0 \/ container'[2] = 0))
       => UNCHANGED <<cameraAspect, rendererSize>>]_vars

\* C8: after every frame tick in which the pointer ray intersects no model
\* geometry, hoveredObject is null and both light targets are 0 (in the
\* onMount variant, which has no targets, both intensities are 0), whatever
\* the load states of the two models are.
C8_NoHitMeansIdleAndDark ==
  (op = "animate" /\ Intersect = Null) =>
    /\ hoveredObject = Null
    /\ cameraTargetIntensity = 0
    /\ computerTargetIntensity = 0
    /\ variant = "onMount" => (cameraGlow = "zero" /\ computerGlow = "zero")

\* a tick has found no intersection after a tick that had lit the camera light
C8_Witness ==
  /\ op = "animate"
  /\ Intersect = Null
  /\ models # {}
  /\ cameraGlow # "zero"
  /\ hoveredObject = Null

\* C9: in the action variant the light targets are determined by the hover
\* state: Hovering(photography) gives (2.5, 0), Hovering(computerscience)
\* gives (0, 2.5), Idle gives (0, 0); so at most one target is lit.
C9_TargetsFollowHover ==
  variant = "action" =>
    /\ cameraTargetIntensity =
         (IF hoveredObject[1] = "photography" THEN LitTarget ELSE 0)
    /\ computerTargetIntensity =
         (IF hoveredObject[1] = "computerscience" THEN LitTarget ELSE 0)
    /\ ~(cameraTargetIntensity # 0 /\ computerTargetIntensity # 0)

\* a tick has resolved a mesh three levels below the computer model's root
C9_Witness ==
  /\ variant = "action"
  /\ op = "animate"
  /\ hoveredObject # Null
  /\ hoveredObject[1] = "computerscience"
  /\ DepthOf(hoveredObject) = 3
  /\ computerTargetIntensity = LitTarget

\* C10: at the tick a focus transition becomes Complete the camera position
\* equals the end position computed when the transition started.
C10_CompleteAtEnd ==
  [][\A id \in DOMAIN focus :
       (LessThanOne(focus[id].progress) /\ ~LessThanOne(focus'[id].progress))
         => cameraPosition' = focus[id].end]_vars

MouseOverLoaded ==
  /\ mouse # Null
  /\ loader[mouse[1]] = "Loaded"
  /\ mouse[2] <= Len(ModelOf(mouse[1]))

\* C12: a model whose load is Pending or Failed is never the owner of
\* hoveredObject and never the subject of a focus transition or of a logged
\* signal; and whatever the load state of the other model, a frame tick with
\* the pointer over a mesh of a Loaded model makes that mesh hoveredObject,
\* and a click on a hovered mesh that is a child of its model's root starts a
\* focus transition for that model.
C12_UnloadedModelsStayOut ==
  [][/\ (hoveredObject # Null => loader[hoveredObject[1]] = "Loaded")'
     /\ \A id \in DOMAIN focus' :
          /\ loader'[focus'[id].portfolio] = "Loaded"
          /\ \A i \in DOMAIN focus'[id].opened :
               loader'[focus'[id].opened[i]] = "Loaded"
     /\ (op' = "animate" /\ MouseOverLoaded) => hoveredObject' = mouse
     /\ (op' = "onClick" /\ hoveredObject # Null
           /\ DepthOf(hoveredObject) = 1)
          => /\ Len(focus') = Len(focus) + 1
             /\ focus'[Len(focus')].portfolio = hoveredObject[1]]_vars

\* a click has started a transition for the only loaded model while the load
\* of the other model has failed
C12_Witness ==
  /\ op = "onClick"
  /\ \E k \in Keys :
       /\ loader[k] = "Loaded"
       /\ \A j \in Keys \ {k} : loader[j] = "Failed"
       /\ hoveredObject # Null
       /\ hoveredObject[1] = k
       /\ focus # << >>
       /\ focus[Len(focus)].portfolio = k

\* ---------------------------------------------------------------------
\* C13 as stated: a pointer-move or click handler only latches input, so
\* an invocation of either leaves the hover state, the light targets and
\* intensities and the camera position unchanged.
lightState == <<cameraTargetIntensity, computerTargetIntensity, cameraGlow,
                computerGlow>>

C13_HandlersOnlyLatch ==
  [][op' \in {"onMouseMove", "onClick"}
       => UNCHANGED <<hoveredObject, lightState, cameraPosition>>]_vars

\* C13 amended: the hover state and the light targets and intensities are
\* written only inside animate(), and the pointer-move handler writes the
\* pointer coordinates alone; but a click that starts a transition runs the
\* first move() inside the click handler, which puts the camera at
\* lerp(start, end, 0.02 / duration), and only a click that starts nothing
\* is sure to leave the camera where it was.
C13_ClickRunsFirstMove ==
  [][/\ hoveredObject' # hoveredObject => op' = "animate"
     /\ lightState' # lightState => op' = "animate"
     /\ cameraPosition' # cameraPosition
          => op' \in {"animate", "move", "onClick"}
     /\ op' = "onMouseMove" => UNCHANGED <<cameraPosition, focus, rafQueue>>
     /\ op' = "onClick" =>
          IF ClickTarget = Null
          THEN UNCHANGED <<cameraPosition, focus, rafQueue>>
          ELSE /\ Len(focus') = Len(focus) + 1
               /\ focus'[Len(focus')].start = cameraPosition
               /\ focus'[Len(focus')].progress = Step
               /\ cameraPosition' =
                    LerpVectors(cameraPosition, EndOf(ClickTarget[1]), Step)]_vars

\* a click has just started a transition and has moved the camera off the
\* transition's start
C13_Witness ==
  /\ op = "onClick"
  /\ focus # << >>
  /\ focus[Len(focus)].progress = Step
  /\ cameraPosition # focus[Len(focus)].start
  /\ cameraPosition # focus[Len(focus)].end

\* ---------------------------------------------------------------------
\* C14: while a focus transition is Running, a tick of the main loop does
\* not write the camera position: the position move() left is the position
\* after animate().
C14_MainLoopLeavesCamera ==
  [][(op' = "animate" /\ \E id \in DOMAIN focus : Running(id))
       => UNCHANGED cameraPosition]_vars

\* ---------------------------------------------------------------------
\* C15: a click made while a mesh of model M is hovered starts a focus
\* transition whose subject is M, at whatever depth below M's root the
\* hovered mesh lies.
C15_ClickResolvesAtAnyDepth ==
  [][(op' = "onClick" /\ hoveredObject # Null)
       => /\ Len(focus') = Len(focus) + 1
          /\ focus'[Len(focus')].portfolio = WalkUp(hoveredObject)[1]]_vars

\* ---------------------------------------------------------------------
\* C16: a model load that completes after the teardown does not mutate the
\* torn-down context: once destroy() has run, no model is assigned or
\* attached to the scene.
C16_NoAttachAfterTeardown ==
  [][destroyed => UNCHANGED <<cameraModel, macbookModel>>]_vars

C18_SignalCarriesClickedKey ==
  [][/\ (op' = "onClick" /\ Len(focus') > Len(focus))
          => /\ hoveredObject # Null
             /\ focus'[Len(focus')].portfolio = WalkUp(hoveredObject)[1]
     /\ \A id \in DOMAIN focus :
          /\ focus'[id].portfolio = focus[id].portfolio
          /\ focus'[id].opened # focus[id].opened
               => focus'[id].opened =
                    Append(focus[id].opened, focus[id].portfolio)]_vars

\* a transition has logged its key while nothing is hovered any more
C18_Witness ==
  /\ op = "move"
  /\ hoveredObject = Null
  /\ \E id \in DOMAIN focus :
       Complete(id) /\ focus[id].opened = <<focus[id].portfolio>>

\* ---------------------------------------------------------------------
\* C19: the intensity of a light is never negative, whatever ticks and
\* changes of its target occur.
C19_IntensityNeverNegative == light.x >= 0

\* a negative flicker term has brought a lit light down to the threshold
\* or below
C19_Witness ==
  /\ op = "glow"
  /\ light.applied
  /\ light.x <= FlickerThreshold

\* ---------------------------------------------------------------------
\* the light is strictly closer to its target in l2 than in l1
Closer(l2, l1) ==
  LET abs(n) == IF n >= 0 THEN n ELSE -n
  IN IF l1.unit = l2.unit
     THEN abs(l2.target - l2.x) < abs(l1.target - l1.x)
     ELSE l1.unit = "tiny" /\ abs(l2.target - l2.x) < l1.target

\* the intensity of l2 lies between that of l1 and the target
NoOvershoot(l2, l1) ==
  IF l1.unit = l2.unit
  THEN \/ l1.x <= l2.x /\ l2.x <= l1.target
       \/ l1.target <= l2.x /\ l2.x <= l1.x
  ELSE l1.unit = "tiny" /\ 0 <= l2.x /\ l2.x <= l1.target

AtTarget(l) == l.unit = "milli" /\ l.x = l.target

\* C20 as stated: in a tick that applies no flicker term to a light whose
\* intensity differs from its target, the smoothing brings the intensity
\* strictly closer to the target and not beyond it.
C20_SmoothingStrictlyApproaches ==
  [][(op' = "glow" /\ ~light'.applied /\ ~AtTarget(light))
       => Closer(light', light) /\ NoOvershoot(light', light)]_vars

\* C20 amended: such a tick never takes the intensity farther from the
\* target nor beyond it; the step is (target - intensity) * 0.08 rounded to
\* the grid of the doubles, so the approach is strict while that product
\* rounds to a non-zero step, and a light decaying toward 0 stops at a
\* non-zero subnormal intensity whose step rounds to 0.
C20_SmoothingApproachesUpToRounding ==
  [][(op' = "glow" /\ ~light'.applied /\ ~AtTarget(light))
       => /\ NoOvershoot(light', light)
          /\ Closer(light', light) \/ light'.x = light.x
          /\ (light.unit = "tiny" /\ light.target = 0)
               => /\ light'.x = light.x - ((8 * light.x + 50) \div 100)
                  /\ light'.x > 0
                  /\ Closer(light', light) <=> 16 * light.x >= 100]_vars

\* the decay has stopped at a non-zero intensity
C20_Witness ==
  /\ op = "glow"
  /\ light.unit = "tiny"
  /\ light.target = 0
  /\ light.x > 0
  /\ GlowStep(light, 0) = light

====
